---------------------------- MODULE Spec2Model ----------------------------
(***************************************************************************)
(* A model of the mitt event emitter (src/src/index.ts): the registry      *)
(* `all`, the operations on, off and emit, and the handlers emit invokes.  *)
(*                                                                         *)
(* emit invokes caller-supplied functions, which may themselves call on,   *)
(* off and emit or throw, so emit is modelled as a stack of activation     *)
(* frames and one step per handler invocation.  on and off are atomic.     *)
(* JavaScript is single-threaded: only the innermost activation advances.  *)
(*                                                                         *)
(* A Map is an object: mitt(all) keeps a reference to the Map it is given, *)
(* and returns it as the property `all`.  The Maps live in `heap`, and an  *)
(* emitter is the pair of references it holds.                             *)
(***************************************************************************)
EXTENDS Integers, Sequences, FiniteSets, TLC

(***************************************************************************)
(* Bounds of the model.                                                    *)
(***************************************************************************)
\* registrations created by on() in one run, plus the calls that handlers
\* make into the emitter during one emit of the owner
MaxWork == 3

(***************************************************************************)
(* Inputs.  EventType is string | symbol (index.ts:1); '*' is the wildcard *)
(* key.  Handlers are function references, contexts arbitrary values; the  *)
(* code compares both with ===, which on these values is identity.  The    *)
(* code never inspects a payload.                                          *)
(***************************************************************************)
Wildcard == "*"
Types == {"foo", Wildcard}
Fns == {"A", "B"}
Undefined == "undefined"
Ctxs == {Undefined, "c1"}
\* the (handler, context) pairs that get registered
Bindings == {<<"A", Undefined>>, <<"A", "c1">>, <<"B", Undefined>>}
\* the once flags a pair is registered with
Onces(b) == IF b = <<"A", Undefined>> THEN BOOLEAN ELSE {FALSE}
\* payloads of the owner's emits, and of the emits handlers make
Evts == {"p1"}
InnerEvts == {"p2"}

\* two emitters: mitt(given) or mitt(), then mitt(first.all)
Emitters == {1, 2}
\* the pairs registered through each emitter
BindingsOf(e) == IF e = 1 THEN Bindings ELSE {<<"B", Undefined>>}
\* the record the caller puts into the Map by hand
Direct == <<"A", "c1", FALSE>>

VARIABLES
    heap,     \* the Map objects: each a function from the keys it holds to handler lists
    emitters, \* per emitter, the Map its property `all` and its closure refer to
    stack,    \* activations of emit, outermost first
    nextId,   \* identity of the next object literal created by on()
    thrown,   \* the last top-level emit ended by an exception reaching its caller
    calls,    \* calls made by handlers into the emitter during the last top-level emit
    op,       \* history: the last call made by the owner of the emitter
    pre,      \* history: the registry when that call was made
    log       \* history: the handler invocations that call has made

vars == <<heap, emitters, stack, nextId, thrown, calls, op, pre, log>>

\* the Map the closure of the first emitter uses (index.ts:57)
all == heap[emitters[1].env]

(***************************************************************************)
(* Map and Array primitives, with JavaScript's 0-based indices.            *)
(***************************************************************************)
Has(m, type) == type \in DOMAIN m

\* Map.prototype.set
MapSet(m, type, list) ==
    [k \in DOMAIN m \cup {type} |-> IF k = type THEN list ELSE m[k]]

\* item => item.fn === handler && item.ctx === context
Matches(item, handler, context) == item.fn = handler /\ item.ctx = context

\* the greatest 0-based index that matches, or -1
FindLastIndex(list, handler, context) ==
    LET hits == {i \in 1..Len(list) : Matches(list[i], handler, context)}
    IN  IF hits = {} THEN -1
        ELSE (CHOOSE i \in hits : \A j \in hits : i >= j) - 1

\* Array.prototype.findIndex: the least 0-based index that matches, or -1
FindIndex(list, handler, context) ==
    LET hits == {i \in 1..Len(list) : Matches(list[i], handler, context)}
    IN  IF hits = {} THEN -1
        ELSE (CHOOSE i \in hits : \A j \in hits : i <= j) - 1

\* 2^32 - 1 is outside TLC's integers; any index past the end of every list
\* stands for it, since splice clamps its start to the length.
PastEnd == 1000000

\* the index as findIndex returns it, without >>> 0
ToUint32Signed(n) == n

\* n >>> 0 for n >= -1
ToUint32(n) == IF n < 0 THEN PastEnd ELSE n

\* Array.prototype.splice(start, deleteCount) with no inserted items
Splice(list, start, deleteCount) ==
    LET len == Len(list)
        from == IF start < 0
                THEN (IF len + start < 0 THEN 0 ELSE len + start)
                ELSE (IF start > len THEN len ELSE start)
        cnt0 == IF deleteCount < 0 THEN 0 ELSE deleteCount
        cnt == IF cnt0 > len - from THEN len - from ELSE cnt0
    IN  SubSeq(list, 1, from) \o SubSeq(list, from + cnt + 1, len)

\* Array.prototype.slice(): a copy sharing the item objects
Slice(list) == [i \in 1..Len(list) |-> list[i]]

(***************************************************************************)
(* on and off as functions of the Map (index.ts:73-108).                   *)
(***************************************************************************)
\* const _handler = { fn: handler, ctx: context, once }; `id` is the identity
\* of the object literal, which no code reads.
NewItem(handler, context, once, id) ==
    [fn |-> handler, ctx |-> context, once |-> once, id |-> id]

PushFront(list, item) == <<item>> \o list

\* handlers.push(_handler)
Push(list, item) == Append(list, item)

\* an on that does not register a (handler, context) the list already has
OnDedup(m, type, handler, context, once, id) ==
    IF Has(m, type)
    THEN IF FindIndex(m[type], handler, context) >= 0
         THEN m
         ELSE [m EXCEPT ![type] = Push(@, NewItem(handler, context, once, id))]
    ELSE MapSet(m, type, <<NewItem(handler, context, once, id)>>)

on(m, type, handler, context, once, id) ==
    IF Has(m, type)
    THEN [m EXCEPT ![type] = Push(@, NewItem(handler, context, once, id))]
    ELSE MapSet(m, type, <<NewItem(handler, context, once, id)>>)

\* handlers.splice(handlers.findIndex(...) >>> 0, 1)
RemoveFirstMatch(list, handler, context) ==
    Splice(list, ToUint32(FindIndex(list, handler, context)), 1)

\* an off that ignores the call without a handler
OffKeepsList(m, type, handler, context) ==
    IF Has(m, type) /\ handler # Undefined
    THEN [m EXCEPT ![type] = RemoveFirstMatch(@, handler, context)]
    ELSE m

\* an off that deletes the key in the call without a handler: all.delete(type)
OffDeletesKey(m, type, handler, context) ==
    IF Has(m, type)
    THEN IF handler # Undefined
         THEN [m EXCEPT ![type] = RemoveFirstMatch(@, handler, context)]
         ELSE [k \in DOMAIN m \ {type} |-> m[k]]
    ELSE m

\* handler = Undefined is the call off(type) without a handler
off(m, type, handler, context) ==
    IF Has(m, type)
    THEN IF handler # Undefined
         THEN [m EXCEPT ![type] = RemoveFirstMatch(@, handler, context)]
         ELSE MapSet(m, type, <<>>)
    ELSE m

(***************************************************************************)
(* Activations of emit (index.ts:120-146).  A frame is one call of emit:   *)
(* its arguments, the pass it is in ("type": lines 121-132, "wild": lines  *)
(* 134-145), the copy made by slice(), the 1-based position of .map in the *)
(* copy, and whether the handler at that position is waiting for an emit   *)
(* it called.  `map` is the Map the closure of the called emit refers to.  *)
(***************************************************************************)
\* all.get(key), then .slice() if the list is there
Snapshot(m, key) == IF Has(m, key) THEN Slice(m[key]) ELSE <<>>

\* an emit that skips its first pass when another emit is running
NewFrameGuarded(ref, m, type, evt) ==
    [map |-> ref, type |-> type, evt |-> evt, pass |-> "type",
     snap |-> IF stack = <<>> THEN Snapshot(m, type) ELSE <<>>,
     i |-> 1, busy |-> FALSE]

NewFrame(ref, m, type, evt) ==
    [map |-> ref, type |-> type, evt |-> evt, pass |-> "type",
     snap |-> Snapshot(m, type), i |-> 1, busy |-> FALSE]

Top == stack[Len(stack)]
Item(f) == f.snap[f.i]
Pending(f) == f.i <= Len(f.snap)

\* the key the pass passes to this.off: type in the first pass, '*' in the second
PassKey(f) == IF f.pass = "type" THEN f.type ELSE Wildcard

\* fn.call(ctx, evt) in the first pass, fn.call(ctx, type, evt) in the second
Args(f) == IF f.pass = "type" THEN <<f.evt>> ELSE <<f.type, f.evt>>

\* a dispatch that never unregisters
AfterCallKeep(m, f) == m

\* if (once) { this.off(type, fn, ctx) }, after fn returned; emit is called as
\* a method of the emitter, so this.off is the emitter's off
AfterCall(m, f) ==
    IF Item(f).once THEN off(m, PassKey(f), Item(f).fn, Item(f).ctx) ELSE m

\* a dispatch that passes over the items of the copy that are no longer in
\* the live list
AdvanceSkipping(f, m) ==
    LET live == IF Has(m, PassKey(f)) THEN {m[PassKey(f)][j].id : j \in 1..Len(m[PassKey(f)])}
                ELSE {}
        later == {j \in (f.i + 1)..Len(f.snap) : f.snap[j].id \in live}
    IN  [f EXCEPT !.i = IF later = {} THEN Len(f.snap) + 1
                        ELSE CHOOSE j \in later : \A k \in later : j <= k,
                  !.busy = FALSE]

\* a dispatch that also walks the registrations added to the live list while
\* it runs
AdvanceOverAdded(f, m) ==
    LET known == {f.snap[j].id : j \in 1..Len(f.snap)}
        IsAdded(r) == r.id \notin known
    IN  [f EXCEPT !.snap = @ \o SelectSeq(Snapshot(m, PassKey(f)), IsAdded),
                  !.i = @ + 1, !.busy = FALSE]

\* a dispatch that walks the live list by index instead of a copy
AdvanceLive(f, m) ==
    [f EXCEPT !.snap = Snapshot(m, PassKey(f)), !.i = @ + 1, !.busy = FALSE]

\* .map moves on to the next item of the copy, whatever the live list
\* m[PassKey(f)] has become
Advance(f, m) == [f EXCEPT !.i = @ + 1, !.busy = FALSE]

\* a second pass that walks the '*' list as it was when the owner called emit
WildcardFrameEarly(f, m) ==
    [f EXCEPT !.pass = "wild", !.snap = Snapshot(pre, Wildcard), !.i = 1]

\* a second pass that is skipped when the emitted type has no list
WildcardFrameIfListed(f, m) ==
    [f EXCEPT !.pass = "wild",
              !.snap = IF Has(m, f.type) THEN Snapshot(m, Wildcard) ELSE <<>>,
              !.i = 1]

\* the second pass of the activation: all.get('*') and its copy
WildcardFrame(f, m) ==
    [f EXCEPT !.pass = "wild", !.snap = Snapshot(m, Wildcard), !.i = 1]

\* a dispatch that catches what a handler throws and goes on
Swallow(stk) == [stk EXCEPT ![Len(stk)].i = @ + 1]

\* an exception thrown by fn.call leaves .map, emit and every caller of emit
\* up to the owner: no activation is left
Unwind(stk) == <<>>

ReplaceTop(stk, f) == [stk EXCEPT ![Len(stk)] = f]

(***************************************************************************)
(* History: what a handler did during one invocation.                      *)
(***************************************************************************)
None == "-"
Did(name, type, handler, context) ==
    [op |-> name, type |-> type, fn |-> handler, ctx |-> context]
Plain == Did("return", None, None, None)

Entry(f, depth, did) ==
    [id |-> Item(f).id, fn |-> Item(f).fn, this |-> Item(f).ctx,
     once |-> Item(f).once, args |-> Args(f), pass |-> f.pass, depth |-> depth, did |-> did]

\* afterOff: an emit(type) made right after off(type); direct: the key, if
\* it is one this emit dispatches, under which the caller put a record into
\* the Map itself right before the emit; threw: the identity of the once
\* registration of type whose callback ended the emit(type) made right before
\* this one by throwing, or 0
Call(name, type, handler, context, once, evt, afterOff, direct, threw) ==
    [name |-> name, type |-> type, fn |-> handler, ctx |-> context,
     once |-> once, evt |-> evt, afterOff |-> afterOff, direct |-> direct,
     threw |-> threw]

(***************************************************************************)
(* The factory (index.ts:50-63): all = all || new Map(), and the property  *)
(* `all` of the returned object is that same Map.  A Map object is truthy, *)
(* also when it is empty.                                                  *)
(***************************************************************************)
EmptyMap == [k \in {} |-> <<>>]

\* references are the positive places of the heap; the argument left out
\* (all?: undefined) is no reference
NoMap == 0

\* a factory that copies the Map it is given: new Map(all)
MittCopy(h, given) ==
    [heap |-> Append(h, IF given = NoMap THEN EmptyMap ELSE h[given]),
     emitter |-> [all |-> Len(h) + 1, env |-> Len(h) + 1]]

\* mitt(given) on heap h: the heap after the call and the emitter returned
Mitt(h, given) ==
    IF given = NoMap
    THEN [heap |-> Append(h, EmptyMap),
          emitter |-> [all |-> Len(h) + 1, env |-> Len(h) + 1]]
    ELSE [heap |-> h, emitter |-> [all |-> given, env |-> given]]

\* the Map objects of the caller before the first mitt(): none, or one Map
\* holding one registration
Seeds == {"foo" :> <<NewItem("A", Undefined, FALSE, 1)>>,
          Wildcard :> <<NewItem("A", Undefined, TRUE, 1)>>}
CallerHeaps == {<<>>} \cup {<<m>> : m \in Seeds}

SeedKey(h0) == IF h0 = <<>> THEN None ELSE CHOOSE k \in DOMAIN h0[1] : TRUE

\* first = mitt(given) or mitt(), second = mitt(first.all)
Init ==
    \E h0 \in CallerHeaps :
        LET first == Mitt(h0, IF h0 = <<>> THEN NoMap ELSE 1)
            second == Mitt(first.heap, first.emitter.all)
        IN  /\ heap = second.heap
            /\ emitters = <<first.emitter, second.emitter>>
            /\ stack = <<>>
            /\ nextId = Len(h0) + 1
            /\ thrown = FALSE
            /\ calls = 0
            /\ op = Call("new", SeedKey(h0), None, None, FALSE, None, FALSE, None, 0)
            /\ pre = IF h0 = <<>> THEN EmptyMap ELSE h0[1]
            /\ log = <<>>

(***************************************************************************)
(* Calls by the owner of the emitters, made while no emit is running: on,  *)
(* off and emit of either emitter, and changes made to the Map that an     *)
(* emitter exposes as `all` without going through on and off.              *)
(***************************************************************************)
Store(ref, m) == heap' = [heap EXCEPT ![ref] = m]

\* the key an emit(type) dispatches under which the last call put a record
DirectKey(type) ==
    IF op.name \in {"new", "insert"} /\ op.type \in {type, Wildcard}
    THEN op.type ELSE None

\* the once registration whose callback threw in the first pass of the
\* emit(type) that the owner made last, after handlers that returned plainly
Threw(type) ==
    IF /\ op.name = "emit"
       /\ op.type = type
       /\ thrown
       /\ log[Len(log)].once
       /\ log[Len(log)].pass = "type"
       /\ \A i \in 1..(Len(log) - 1) : log[i].did = Plain
    THEN log[Len(log)].id ELSE 0

On(e, type, handler, context, once) ==
    /\ stack = <<>>
    /\ Store(emitters[e].env, on(heap[emitters[e].env], type, handler, context, once, nextId))
    /\ nextId' = nextId + 1
    /\ op' = Call("on", type, handler, context, once, None, FALSE, None, 0)
    /\ pre' = heap[emitters[e].env]
    /\ log' = <<>>
    /\ thrown' = FALSE
    /\ calls' = 0
    /\ UNCHANGED <<emitters, stack>>

Off(e, type, handler, context) ==
    /\ stack = <<>>
    /\ Store(emitters[e].env, off(heap[emitters[e].env], type, handler, context))
    /\ op' = Call("off", type, handler, context, FALSE, None, FALSE, None, 0)
    /\ pre' = heap[emitters[e].env]
    /\ log' = <<>>
    /\ thrown' = FALSE
    /\ calls' = 0
    /\ UNCHANGED <<emitters, stack, nextId>>

Emit(e, type, evt) ==
    /\ stack = <<>>
    /\ stack' = <<NewFrame(emitters[e].env, heap[emitters[e].env], type, evt)>>
    /\ op' = Call("emit", type, None, None, FALSE, evt,
                 op.name = "off" /\ op.fn = Undefined /\ op.type = type,
                 DirectKey(type), Threw(type))
    /\ pre' = heap[emitters[e].env]
    /\ log' = <<>>
    /\ thrown' = FALSE
    /\ calls' = 0
    /\ UNCHANGED <<heap, emitters, nextId>>

\* emitter.all.get(type).push(record), or emitter.all.set(type, [record])
\* when the Map has no list for type
Insert(e, type, handler, context, once) ==
    /\ stack = <<>>
    /\ LET m == heap[emitters[e].all]
           record == NewItem(handler, context, once, nextId)
       IN  Store(emitters[e].all,
                 IF Has(m, type) THEN [m EXCEPT ![type] = Push(@, record)]
                 ELSE MapSet(m, type, <<record>>))
    /\ nextId' = nextId + 1
    /\ op' = Call("insert", type, handler, context, once, None, FALSE, None, 0)
    /\ pre' = heap[emitters[e].all]
    /\ log' = <<>>
    /\ thrown' = FALSE
    /\ calls' = 0
    /\ UNCHANGED <<emitters, stack>>

\* emitter.all.get(type).splice(n - 1, 1), n the 1-based place of a record
Remove(e, type, n) ==
    /\ stack = <<>>
    /\ Has(heap[emitters[e].all], type)
    /\ n <= Len(heap[emitters[e].all][type])
    /\ Store(emitters[e].all,
             [heap[emitters[e].all] EXCEPT ![type] = Splice(@, n - 1, 1)])
    /\ op' = Call("remove", type, None, None, FALSE, n, FALSE, None, 0)
    /\ pre' = heap[emitters[e].all]
    /\ log' = <<>>
    /\ thrown' = FALSE
    /\ calls' = 0
    /\ UNCHANGED <<emitters, stack, nextId>>

(***************************************************************************)
(* One handler invocation of the innermost emit: fn.call(ctx, ...), what   *)
(* the handler does, and the once-removal that follows its return.  A      *)
(* handler makes at most one call into the emitter per invocation, to the  *)
(* emitter that invoked it.                                                *)
(***************************************************************************)
CanInvoke == stack # <<>> /\ ~Top.busy /\ Pending(Top)

HandlerReturns ==
    /\ CanInvoke
    /\ log' = Append(log, Entry(Top, Len(stack), Plain))
    /\ Store(Top.map, AfterCall(heap[Top.map], Top))
    /\ stack' = ReplaceTop(stack, Advance(Top, heap'[Top.map]))
    /\ UNCHANGED <<emitters, nextId, thrown, calls, op, pre>>

HandlerCallsOn(type, handler, context, once) ==
    /\ CanInvoke
    /\ log' = Append(log, Entry(Top, Len(stack), Did("on", type, handler, context)))
    /\ Store(Top.map,
             AfterCall(on(heap[Top.map], type, handler, context, once, nextId), Top))
    /\ nextId' = nextId + 1
    /\ calls' = calls + 1
    /\ stack' = ReplaceTop(stack, Advance(Top, heap'[Top.map]))
    /\ UNCHANGED <<emitters, thrown, op, pre>>

HandlerCallsOff(type, handler, context) ==
    /\ CanInvoke
    /\ log' = Append(log, Entry(Top, Len(stack), Did("off", type, handler, context)))
    /\ Store(Top.map, AfterCall(off(heap[Top.map], type, handler, context), Top))
    /\ calls' = calls + 1
    /\ stack' = ReplaceTop(stack, Advance(Top, heap'[Top.map]))
    /\ UNCHANGED <<emitters, nextId, thrown, op, pre>>

HandlerCallsEmit(type, evt) ==
    /\ CanInvoke
    /\ log' = Append(log, Entry(Top, Len(stack), Did("emit", type, None, None)))
    /\ stack' = Append(ReplaceTop(stack, [Top EXCEPT !.busy = TRUE]),
                       NewFrame(Top.map, heap[Top.map], type, evt))
    /\ calls' = calls + 1
    /\ UNCHANGED <<heap, emitters, nextId, thrown, op, pre>>

\* a dispatch that unregisters a once handler in a finally block
HandlerThrowsRemoving ==
    /\ CanInvoke
    /\ log' = Append(log, Entry(Top, Len(stack), Did("throw", None, None, None)))
    /\ Store(Top.map, AfterCall(heap[Top.map], Top))
    /\ stack' = Unwind(stack)
    /\ thrown' = (stack' = <<>>)
    /\ UNCHANGED <<emitters, nextId, calls, op, pre>>

\* nothing in emit catches: the exception leaves every activation
HandlerThrows ==
    /\ CanInvoke
    /\ log' = Append(log, Entry(Top, Len(stack), Did("throw", None, None, None)))
    /\ stack' = Unwind(stack)
    /\ thrown' = (stack' = <<>>)
    /\ UNCHANGED <<heap, emitters, nextId, calls, op, pre>>

\* handlers = all.get('*') and its slice(), once the first pass is over
WildcardPass ==
    /\ stack # <<>>
    /\ Top.pass = "type"
    /\ ~Pending(Top)
    /\ stack' = ReplaceTop(stack, WildcardFrame(Top, heap[Top.map]))
    /\ UNCHANGED <<heap, emitters, nextId, thrown, calls, op, pre, log>>

\* emit returns; a handler that called it returns in turn
EmitReturns ==
    /\ stack # <<>>
    /\ Top.pass = "wild"
    /\ ~Pending(Top)
    /\ LET rest == SubSeq(stack, 1, Len(stack) - 1)
       IN  IF rest = <<>>
           THEN /\ stack' = <<>>
                /\ heap' = heap
           ELSE /\ Store(rest[Len(rest)].map,
                         AfterCall(heap[rest[Len(rest)].map], rest[Len(rest)]))
                /\ stack' = ReplaceTop(rest, Advance(rest[Len(rest)],
                                                     heap'[rest[Len(rest)].map]))
    /\ UNCHANGED <<emitters, nextId, thrown, calls, op, pre, log>>

(***************************************************************************)
(* The owner calls on, off and emit and changes the Map; a handler         *)
(* returns, throws, or calls on, off or emit on the emitter that is        *)
(* invoking it and then returns.                                           *)
(***************************************************************************)
Work == (nextId - 1) + calls

Next ==
    \/ \E e \in Emitters, t \in Types : \E b \in BindingsOf(e) : \E o \in Onces(b) :
          Work < MaxWork /\ On(e, t, b[1], b[2], o)
    \/ \E t \in Types, h \in Fns, c \in Ctxs : Off(1, t, h, c)
    \/ \E e \in Emitters, t \in Types : Off(e, t, Undefined, Undefined)
    \/ \E e \in Emitters, t \in Types, x \in Evts : Emit(e, t, x)
    \/ \E e \in Emitters, t \in Types :
          Work < MaxWork /\ Insert(e, t, Direct[1], Direct[2], Direct[3])
    \/ \E e \in Emitters, t \in Types, n \in 1..MaxWork : Remove(e, t, n)
    \/ HandlerReturns
    \/ \E t \in Types, h \in Fns :
          Work + 1 < MaxWork /\ HandlerCallsOn(t, h, Undefined, FALSE)
    \/ \E t \in Types, h \in Fns :
          Work < MaxWork /\ HandlerCallsOff(t, h, Undefined)
    \/ \E t \in Types :
          Work < MaxWork /\ HandlerCallsOff(t, Undefined, Undefined)
    \/ \E t \in Types, e \in InnerEvts :
          Work < MaxWork /\ HandlerCallsEmit(t, e)
    \/ HandlerThrows
    \/ WildcardPass
    \/ EmitReturns

Spec == Init /\ [][Next]_vars

(***************************************************************************)
(* Vocabulary of the properties.                                           *)
(***************************************************************************)
Idle == stack = <<>>
\* the owner's last call was an emit, which has returned or thrown
EmitOver == Idle /\ op.name = "emit"
\* every handler invoked so far returned without calling the emitter
PureLog == \A i \in 1..Len(log) : log[i].did = Plain

ListOf(m, key) == IF Has(m, key) THEN m[key] ELSE <<>>
Ids(list) == {list[i].id : i \in 1..Len(list)}
\* ids grow with every on(): a list in registration order has growing ids
IsRegOrder(list) == \A i, j \in 1..Len(list) : i < j => list[i].id < list[j].id

IsOuter(e, pass) == e.depth = 1 /\ e.pass = pass
IsOuterType(e) == IsOuter(e, "type")
IsOuterWild(e) == IsOuter(e, "wild")
\* the invocations made by the owner's emit itself, per pass
TypeCalls == SelectSeq(log, IsOuterType)
WildCalls == SelectSeq(log, IsOuterWild)

\* entry e is the invocation of registration item with arguments args
Invokes(e, item, args) ==
    /\ e.id = item.id
    /\ e.fn = item.fn
    /\ e.this = item.ctx
    /\ e.args = args

\* the invocations es are those of the registrations of list, one each, in order
InvokesAll(es, list, args) ==
    /\ Len(es) = Len(list)
    /\ \A i \in 1..Len(list) : Invokes(es[i], list[i], args)

(***************************************************************************)
(* C1.  For a key K other than '*' whose handlers H1..Hn were registered   *)
(* in that order and neither call the emitter nor throw, emit(K, payload)  *)
(* invokes exactly H1, ..., Hn, in that order, each once, each with the    *)
(* payload as its argument and its registered context as `this`.           *)
(***************************************************************************)
C1_Case ==
    /\ EmitOver
    /\ op.type # Wildcard
    /\ PureLog

C1_EmitInvokesInOrder ==
    C1_Case =>
        /\ IsRegOrder(ListOf(pre, op.type))
        /\ InvokesAll(TypeCalls, ListOf(pre, op.type), <<op.evt>>)

\* on, on, emit with nothing removed in between: two handlers, two contexts
C1_Witness ==
    /\ C1_Case
    /\ nextId = 3
    /\ Len(ListOf(pre, op.type)) = 2
    /\ pre[op.type][1].ctx # pre[op.type][2].ctx
    /\ Len(TypeCalls) = 2

(***************************************************************************)
(* C2.  For a key K other than '*', emit(K, payload) invokes the handlers  *)
(* registered under '*' with the arguments (K, payload), after all the     *)
(* handlers of K, and, when its handlers return without calling the        *)
(* emitter, each of them once in registration order; also when K has no    *)
(* list.                                                                   *)
(***************************************************************************)
C2_WildcardAfterType ==
    (op.name = "emit" /\ op.type # Wildcard) =>
        /\ \A i \in 1..Len(log) : IsOuterWild(log[i]) =>
              /\ log[i].args = <<op.type, op.evt>>
              /\ Len(TypeCalls) = Len(ListOf(pre, op.type))
              /\ \A j \in i..Len(log) : ~IsOuterType(log[j])
        /\ (Idle /\ PureLog) =>
              /\ IsRegOrder(ListOf(pre, Wildcard))
              /\ InvokesAll(WildCalls, ListOf(pre, Wildcard), <<op.type, op.evt>>)

C2_Witness ==
    /\ EmitOver
    /\ PureLog
    /\ op.type # Wildcard
    /\ Len(TypeCalls) = 1
    /\ Len(WildCalls) = 2

\* the same with no list for K
C2_WitnessNoList ==
    /\ EmitOver
    /\ PureLog
    /\ ~Has(pre, op.type)
    /\ Len(WildCalls) = 2

(***************************************************************************)
(* C3.  A once registration r under key K (or under '*') whose (callback,  *)
(* context) no other registration of its list has, and whose callback      *)
(* returns without calling the emitter, is invoked exactly once: the first *)
(* emit that dispatches its list invokes it with that emit's arguments and *)
(* leaves it in no list, and an emit invokes only registrations that were  *)
(* in a list when it was called or were made during it, so no later emit   *)
(* invokes it.  The dispatch is one that returns, in which no handler      *)
(* calls emit or registers the same (callback, context) again.             *)
(***************************************************************************)
Unique(r, list) ==
    \A j \in 1..Len(list) : Matches(list[j], r.fn, r.ctx) => list[j].id = r.id

\* nothing in the owner's emit interferes with registration r of list key
Undisturbed(r, key) ==
    \A i \in 1..Len(log) :
        /\ log[i].did.op # "emit"
        /\ log[i].id = r.id => log[i].did = Plain
        /\ ~(log[i].did.op = "on" /\ log[i].did.type = key
                /\ log[i].did.fn = r.fn /\ log[i].did.ctx = r.ctx)
        /\ (key = Wildcard /\ op.type # Wildcard) =>
              ~(log[i].did.op = "off" /\ log[i].did.type = Wildcard)

IdsIn(m) == UNION {Ids(m[k]) : k \in DOMAIN m}
Gone(id) == Idle /\ id \notin IdsIn(all)
\* the identity the first on() made during the owner's emit got, or would get
FirstNewId == nextId - Cardinality({i \in 1..Len(log) : log[i].did.op = "on"})

OnceCase(r, key) ==
    /\ EmitOver
    /\ ~thrown
    /\ r.once
    /\ Unique(r, ListOf(pre, key))
    /\ Undisturbed(r, key)

C3_FirstEmit ==
    \A key \in {op.type, Wildcard} :
        \A n \in 1..Len(ListOf(pre, key)) :
            LET r == pre[key][n]
                at == {i \in 1..Len(log) : log[i].id = r.id}
            IN  OnceCase(r, key) =>
                    /\ Cardinality(at) = 1
                    /\ \A i \in at :
                          /\ log[i].depth = 1
                          /\ Invokes(log[i], r,
                                     IF key = op.type THEN <<op.evt>>
                                     ELSE <<op.type, op.evt>>)
                    /\ Gone(r.id)

C3_OnlyRegistered ==
    op.name = "emit" =>
        \A i \in 1..Len(log) : log[i].id \in IdsIn(pre) \/ log[i].id >= FirstNewId

C3_OnceFiresOnce == C3_FirstEmit /\ C3_OnlyRegistered

\* a once handler and a permanent one under foo, after the emit that fired both
C3_Witness ==
    /\ op.type # Wildcard
    /\ Len(ListOf(pre, op.type)) = 2
    /\ OnceCase(pre[op.type][1], op.type)
    /\ ~pre[op.type][2].once
    /\ Len(log) = 2
    /\ all[op.type] = <<pre[op.type][2]>>

(***************************************************************************)
(* C4.  off(K, h, ctx) with a callback, when K's list holds a registration *)
(* with callback h and context ctx, removes exactly one registration, the  *)
(* first such in list order; the others of K keep their order, and every   *)
(* other key keeps its list.                                               *)
(***************************************************************************)
IsMatch(list, i, h, c) == list[i].fn = h /\ list[i].ctx = c
HasMatch(list, h, c) == \E i \in 1..Len(list) : IsMatch(list, i, h, c)
\* list with its n-th element left out
Without(list, n) ==
    [i \in 1..(Len(list) - 1) |-> IF i < n THEN list[i] ELSE list[i + 1]]
SameElsewhere(key) ==
    /\ DOMAIN all \ {key} = DOMAIN pre \ {key}
    /\ \A k \in DOMAIN pre \ {key} : all[k] = pre[k]

OffWithCallback == Idle /\ op.name = "off" /\ op.fn # Undefined

C4_Case == OffWithCallback /\ HasMatch(ListOf(pre, op.type), op.fn, op.ctx)

C4_OffRemovesFirstMatch ==
    C4_Case =>
        /\ \E n \in 1..Len(pre[op.type]) :
              /\ IsMatch(pre[op.type], n, op.fn, op.ctx)
              /\ \A i \in 1..(n - 1) : ~IsMatch(pre[op.type], i, op.fn, op.ctx)
              /\ all[op.type] = Without(pre[op.type], n)
        /\ SameElsewhere(op.type)

\* two matches around another registration
C4_Witness ==
    /\ C4_Case
    /\ Len(pre[op.type]) = 3
    /\ IsMatch(pre[op.type], 1, op.fn, op.ctx)
    /\ ~IsMatch(pre[op.type], 2, op.fn, op.ctx)
    /\ IsMatch(pre[op.type], 3, op.fn, op.ctx)
    /\ Len(all[op.type]) = 2

(***************************************************************************)
(* C5.  off(K, h, ctx) with a callback leaves the whole registry unchanged *)
(* when no registration of K has callback h and context ctx: K absent, K's *)
(* list empty, h registered under another context only, or the only match  *)
(* removed by an earlier off.                                              *)
(***************************************************************************)
C5_Case == OffWithCallback /\ ~HasMatch(ListOf(pre, op.type), op.fn, op.ctx)

C5_OffWithoutMatchIsNoOp == C5_Case => all = pre

\* h is registered under K with another context, after another registration
C5_Witness ==
    /\ C5_Case
    /\ Len(ListOf(pre, op.type)) = 2
    /\ pre[op.type][1].fn = op.fn
    /\ pre[op.type][1].ctx # op.ctx
    /\ pre[op.type][2].fn # op.fn

\* K is not in the mapping
C5_WitnessAbsent == C5_Case /\ ~Has(pre, op.type) /\ pre # EmptyMap

\* K's list is empty
C5_WitnessEmpty == C5_Case /\ Has(pre, op.type) /\ pre[op.type] = <<>>

(***************************************************************************)
(* C6.  An emit(K, x) made right after off(K) invokes no handler of K's    *)
(* list, whatever the list was before the off, and still invokes every     *)
(* handler registered under '*' with (K, x).                               *)
(***************************************************************************)
C6_Case == op.name = "emit" /\ op.afterOff

C6_EmitAfterOffAll ==
    C6_Case =>
        /\ \A i \in 1..Len(log) : ~IsOuterType(log[i])
        /\ (Idle /\ PureLog) =>
              InvokesAll(WildCalls, ListOf(pre, Wildcard), <<op.type, op.evt>>)

\* off(K) left K with an empty list; the wildcard handlers ran
C6_Witness ==
    /\ C6_Case
    /\ Idle
    /\ PureLog
    /\ op.type # Wildcard
    /\ Has(pre, op.type)
    /\ Len(ListOf(pre, Wildcard)) = 2
    /\ Len(log) = 2

(***************************************************************************)
(* C7.  After off(K) without a callback, a key K that was in the mapping   *)
(* is still in it, with an empty list, and every other key is as before;   *)
(* a key K that was not in the mapping is still not in it.                 *)
(***************************************************************************)
OffAll == Idle /\ op.name = "off" /\ op.fn = Undefined

C7_OffClearsListedKey ==
    OffAll =>
        IF Has(pre, op.type)
        THEN /\ Has(all, op.type)
             /\ all[op.type] = <<>>
             /\ SameElsewhere(op.type)
        ELSE all = pre

\* K held a once and a permanent registration, '*' a third
C7_Witness ==
    /\ OffAll
    /\ op.type # Wildcard
    /\ Len(ListOf(pre, op.type)) = 2
    /\ pre[op.type][1].once # pre[op.type][2].once
    /\ Len(ListOf(all, Wildcard)) = 1
    /\ all[op.type] = <<>>

\* C7 as claimed: after off(K) without a callback K is in the mapping with an
\* empty list, also when K was never registered
C7_KeyPresentAfterOff ==
    OffAll => (Has(all, op.type) /\ all[op.type] = <<>>)

(***************************************************************************)
(* C10.  on(K, h, ctx, once) appends one new registration (h, ctx, once)   *)
(* at the end of K's list, creating the list if K has none, whether or not *)
(* the same (h, ctx) is registered already, and changes no registration of *)
(* K and no other key; emit(K, x) then invokes h with context ctx as many  *)
(* times as (h, ctx) is registered under K.                                *)
(***************************************************************************)
C10_OnAppends ==
    (Idle /\ op.name = "on") =>
        LET old == ListOf(pre, op.type)
            new == ListOf(all, op.type)
        IN  /\ Len(new) = Len(old) + 1
            /\ \A i \in 1..Len(old) : new[i] = old[i]
            /\ new[Len(new)].fn = op.fn
            /\ new[Len(new)].ctx = op.ctx
            /\ new[Len(new)].once = op.once
            /\ new[Len(new)].id \notin IdsIn(pre)
            /\ SameElsewhere(op.type)

C10_EmitInvokesEach ==
    (EmitOver /\ PureLog) =>
        \A h \in Fns, c \in Ctxs :
            Cardinality({i \in 1..Len(log) :
                            IsOuterType(log[i]) /\ log[i].fn = h /\ log[i].this = c})
            = Cardinality({n \in 1..Len(ListOf(pre, op.type)) :
                            IsMatch(pre[op.type], n, h, c)})

C10_OnAppendsWithoutDedup == C10_OnAppends /\ C10_EmitInvokesEach

\* the same (h, ctx) registered three times under K, and invoked three times
C10_Witness ==
    /\ EmitOver
    /\ PureLog
    /\ nextId = 4
    /\ Len(ListOf(pre, op.type)) = 3
    /\ \A n \in 1..3 : IsMatch(pre[op.type], n, pre[op.type][1].fn, pre[op.type][1].ctx)
    /\ Len(TypeCalls) = 3

(***************************************************************************)
(* C8.  When handler A, invoked by emit(K), calls off(K, B) for a handler  *)
(* B that is after A in K's list and has not been invoked yet, B leaves    *)
(* the live list but is still invoked in this dispatch, which walks the    *)
(* copy made before A ran (if the emit is not ended by an exception).      *)
(***************************************************************************)
\* invocation i of the first pass of the owner's emit(K) called off(K, h, c),
\* and registration n of K's list is the one with callback h and context c and
\* is after the caller
RemovesLater(i, n) ==
    /\ IsOuterType(log[i])
    /\ log[i].did.op = "off"
    /\ log[i].did.type = op.type
    /\ IsMatch(pre[op.type], n, log[i].did.fn, log[i].did.ctx)
    /\ Unique(pre[op.type][n], pre[op.type])
    /\ \E m \in 1..(n - 1) : pre[op.type][m].id = log[i].id

InvokedAfter(i, r) ==
    \E j \in (i + 1)..Len(log) : IsOuterType(log[j]) /\ log[j].id = r.id

C8_RemovedHandlerStillInvoked ==
    (EmitOver /\ ~thrown) =>
        \A i \in 1..Len(log), n \in 1..Len(ListOf(pre, op.type)) :
            RemovesLater(i, n) =>
                /\ \E j \in (i + 1)..Len(log) :
                      /\ IsOuterType(log[j])
                      /\ Invokes(log[j], pre[op.type][n], <<op.evt>>)
                /\ pre[op.type][n].id \notin Ids(ListOf(all, op.type))

\* A then B under foo: A calls off(foo, B), B runs all the same and is unlisted
C8_Witness ==
    /\ EmitOver
    /\ ~thrown
    /\ op.type # Wildcard
    /\ Len(ListOf(pre, op.type)) = 2
    /\ RemovesLater(1, 2)
    /\ Len(log) = 2
    /\ log[2].id = pre[op.type][2].id
    /\ all[op.type] = <<pre[op.type][1]>>

\* C8 as claimed, for the keys other than '*': B is skipped, it is not
\* invoked in this dispatch
C8_RemovedHandlerSkipped ==
    (op.name = "emit" /\ op.type # Wildcard) =>
        \A i \in 1..Len(log), n \in 1..Len(ListOf(pre, op.type)) :
            RemovesLater(i, n) => ~InvokedAfter(i, pre[op.type][n])

(***************************************************************************)
(* C9.  When a handler invoked by emit(K, x) throws, the exception reaches *)
(* the caller of emit and nothing more is invoked: no later handler of K's *)
(* copy and none of the wildcard pass, or no later wildcard handler.  The  *)
(* handlers before it were invoked once each, and the registry is as their *)
(* once-removals left it.                                                  *)
(***************************************************************************)
HasThrow == \E i \in 1..Len(log) : log[i].did.op = "throw"
PlainBefore == \A i \in 1..(Len(log) - 1) : log[i].did = Plain

\* the invocations of an emit(K, x) nobody interferes with, K other than '*'
FullDispatch == ListOf(pre, op.type) \o ListOf(pre, Wildcard)
ArgsAt(i) ==
    IF i <= Len(ListOf(pre, op.type)) THEN <<op.evt>> ELSE <<op.type, op.evt>>

\* the registry after the once-removals of the first n invocations of the log
RECURSIVE Removals(_, _)
Removals(m, n) ==
    IF n = 0 THEN m
    ELSE IF log[n].once
         THEN off(Removals(m, n - 1),
                  IF log[n].pass = "type" THEN op.type ELSE Wildcard,
                  log[n].fn, log[n].this)
         ELSE Removals(m, n - 1)

C9_ThrowEndsDispatch ==
    HasThrow =>
        /\ EmitOver
        /\ thrown
        /\ \A i \in 1..Len(log) : log[i].did.op = "throw" <=> i = Len(log)
        /\ \A i, j \in 1..Len(log) :
              (i < j /\ log[i].depth = 1 /\ log[j].depth = 1
                     /\ log[i].pass = log[j].pass) => log[i].id # log[j].id
        /\ PlainBefore =>
              /\ all = Removals(pre, Len(log) - 1)
              /\ op.type # Wildcard =>
                    /\ Len(log) <= Len(FullDispatch)
                    /\ \A i \in 1..Len(log) :
                          Invokes(log[i], FullDispatch[i], ArgsAt(i))

\* a once handler, then the thrower under foo, and a wildcard handler never run
C9_Witness ==
    /\ HasThrow
    /\ op.type # Wildcard
    /\ Len(ListOf(pre, op.type)) = 2
    /\ pre[op.type][1].once
    /\ Len(ListOf(pre, Wildcard)) = 1
    /\ Len(log) = 2
    /\ all[op.type] = <<pre[op.type][2]>>
    /\ all[Wildcard] = pre[Wildcard]

\* the thrower is a wildcard handler, with another after it
C9_WitnessWildcard ==
    /\ HasThrow
    /\ op.type # Wildcard
    /\ Len(ListOf(pre, Wildcard)) = 2
    /\ Len(log) = Len(ListOf(pre, op.type)) + 1

(***************************************************************************)
(* C11.  The Map an emitter exposes as `all` is the Map its on, off and    *)
(* emit work on, and it is the Map given to the factory: no other Map is   *)
(* ever made or used, so both emitters built over it see the same          *)
(* registrations.  on and off leave in it what putting the same record at  *)
(* the end of the list, or taking the same record out of it, by hand       *)
(* leaves; a change made by hand is a change of the registry of every      *)
(* emitter; and an emit dispatches a record that the caller has just put   *)
(* into the Map by hand or had in it before the factory was called.        *)
(***************************************************************************)
\* the Map read through the property `all` of emitter e, and the Map its
\* closure works on
Exposed(e) == heap[emitters[e].all]
Used(e) == heap[emitters[e].env]

\* what the caller's own push, set and splice make of the contents m
Inserted(m, type, record) ==
    [k \in DOMAIN m \cup {type} |->
        IF k = type THEN ListOf(m, type) \o <<record>> ELSE m[k]]
Removed(m, type, n) == [m EXCEPT ![type] = Without(@, n)]

FirstMatch(list, h, c) ==
    CHOOSE n \in 1..Len(list) :
        /\ IsMatch(list, n, h, c)
        /\ \A i \in 1..(n - 1) : ~IsMatch(list, i, h, c)

C11_OneMap ==
    /\ Len(heap) = 1
    /\ \A e \in Emitters : emitters[e].all = 1 /\ emitters[e].env = 1
    /\ op.name = "new" => \A e \in Emitters : Exposed(e) = pre /\ Used(e) = pre

C11_RoundTrip ==
    Idle =>
        /\ op.name = "on" =>
              \A e \in Emitters :
                  Exposed(e) = Inserted(pre, op.type,
                                        NewItem(op.fn, op.ctx, op.once, nextId - 1))
        /\ (op.name = "off" /\ op.fn # Undefined
                /\ HasMatch(ListOf(pre, op.type), op.fn, op.ctx)) =>
              \A e \in Emitters :
                  Exposed(e) = Removed(pre, op.type,
                                       FirstMatch(pre[op.type], op.fn, op.ctx))
        /\ op.name = "insert" =>
              \A e \in Emitters :
                  Used(e) = Inserted(pre, op.type,
                                     NewItem(op.fn, op.ctx, op.once, nextId - 1))
        /\ op.name = "remove" =>
              \A e \in Emitters : Used(e) = Removed(pre, op.type, op.evt)

\* the invocations of the pass that walks the list of key
PassCalls(key) == IF key = op.type THEN TypeCalls ELSE WildCalls
PassArgs(key) == IF key = op.type THEN <<op.evt>> ELSE <<op.type, op.evt>>

C11_DirectDispatched ==
    (EmitOver /\ op.direct # None /\ ~thrown /\ PureLog) =>
        LET list == pre[op.direct]
            es == PassCalls(op.direct)
        IN  /\ Len(es) = Len(list)
            /\ Invokes(es[Len(es)], list[Len(list)], PassArgs(op.direct))

C11_AllIsTheStore == C11_OneMap /\ C11_RoundTrip /\ C11_DirectDispatched

\* emit(K) right after the caller pushed a record behind a registration of K:
\* both are invoked
C11_Witness ==
    /\ EmitOver
    /\ PureLog
    /\ op.type # Wildcard
    /\ op.direct = op.type
    /\ Len(pre[op.type]) = 2
    /\ pre[op.type][2].fn = Direct[1]
    /\ pre[op.type][2].ctx = Direct[2]
    /\ Len(TypeCalls) = 2
    /\ TypeCalls[2].this = Direct[2]

\* the Map given to the factory held a registration, which emit dispatches
C11_WitnessSeeded ==
    /\ EmitOver
    /\ PureLog
    /\ nextId = 2
    /\ op.direct = Wildcard
    /\ op.type # Wildcard
    /\ Len(log) = 1
    /\ all[Wildcard] = <<>>

(***************************************************************************)
(* C12.  An emit('*', x) invokes no handler registered under '*': the      *)
(* emit itself, as opposed to the emits its handlers call, makes no        *)
(* invocation.  The code walks the '*' list twice, first with (x) and then *)
(* with ('*', x).                                                          *)
(***************************************************************************)
C12_DirectWildcardEmitInvokesNone ==
    (op.name = "emit" /\ op.type = Wildcard) =>
        \A i \in 1..Len(log) : log[i].depth # 1

(***************************************************************************)
(* C13.  The once-removal that follows an invocation takes the invoked     *)
(* registration itself out of the live list and no other: after an         *)
(* emit(K, x), K other than '*', whose handlers returned without calling   *)
(* the emitter, the lists of K and of '*' are the lists the emit found     *)
(* without their once registrations, and no other key has changed.  The    *)
(* code removes the first registration with the same callback and context. *)
(***************************************************************************)
NotOnce(r) == ~r.once

C13_OnceRemovesTheRecordThatFired ==
    (EmitOver /\ ~thrown /\ PureLog /\ op.type # Wildcard) =>
        /\ DOMAIN all = DOMAIN pre
        /\ \A k \in DOMAIN pre :
              all[k] = IF k \in {op.type, Wildcard}
                       THEN SelectSeq(pre[k], NotOnce) ELSE pre[k]

(***************************************************************************)
(* C14.  When a handler invoked by the first pass of emit(K, x) calls      *)
(* off(K, h) for its own callback or for that of a handler of K invoked    *)
(* before it, and the emit returns, the first pass has invoked every       *)
(* registration K's list held when emit was called, once each, in          *)
(* registration order, with x: none is skipped, none invoked twice.        *)
(***************************************************************************)
\* the place in K's list of the registration that invocation i is of
PlaceOf(i) == CHOOSE m \in 1..Len(pre[op.type]) : pre[op.type][m].id = log[i].id

\* invocation i of the first pass called off(K, h) where h is registered at
\* its own place or before it
RemovesSelfOrEarlier(i) ==
    /\ IsOuterType(log[i])
    /\ log[i].did.op = "off"
    /\ log[i].did.type = op.type
    /\ \E m \in 1..PlaceOf(i) :
          IsMatch(pre[op.type], m, log[i].did.fn, log[i].did.ctx)

C14_Case ==
    /\ EmitOver
    /\ ~thrown
    /\ \E i \in 1..Len(log) : RemovesSelfOrEarlier(i)

C14_RemovalOfSelfOrEarlierSkipsNone ==
    C14_Case =>
        /\ IsRegOrder(pre[op.type])
        /\ InvokesAll(TypeCalls, pre[op.type], <<op.evt>>)

\* A then B under foo: A removes itself, B is invoked and is all that is left
C14_Witness ==
    /\ C14_Case
    /\ op.type # Wildcard
    /\ Len(pre[op.type]) = 2
    /\ RemovesSelfOrEarlier(1)
    /\ log[1].did.fn = log[1].fn
    /\ Len(TypeCalls) = 2
    /\ all[op.type] = <<pre[op.type][2]>>

\* A then B under foo: B removes A, which had been invoked
C14_WitnessEarlier ==
    /\ C14_Case
    /\ op.type # Wildcard
    /\ Len(pre[op.type]) = 2
    /\ RemovesSelfOrEarlier(2)
    /\ log[2].did.fn # log[2].fn
    /\ all[op.type] = <<pre[op.type][2]>>

(***************************************************************************)
(* C15.  A registration made with on(K, h) by a handler of the first pass  *)
(* of emit(K), or with on('*', h) by a handler of the wildcard pass, is    *)
(* not invoked by that pass; it is in the live list when the emit returns  *)
(* (if nothing removed it), and an emit that returns has invoked every     *)
(* registration its key's list held when it was called, so the next        *)
(* emit(K) invokes it.  An emit whose handlers call no emit makes at most  *)
(* as many invocations as the list of K held when it was called, plus the  *)
(* '*' list then, plus the on('*') calls that came before the second copy  *)
(* was made: it cannot go on for ever.                                     *)
(***************************************************************************)
IsOn(i) == log[i].did.op = "on"
\* the identity of the registration that invocation i made with on()
NewIdOf(i) == FirstNewId + Cardinality({j \in 1..(i - 1) : IsOn(j)})

\* invocation i, of the pass that walks the list of its key, called on() for
\* that key
AddsToOwnList(i) ==
    /\ IsOn(i)
    /\ log[i].depth = 1
    /\ log[i].did.type = (IF log[i].pass = "type" THEN op.type ELSE Wildcard)

NoEmitCalls == \A i \in 1..Len(log) : log[i].did.op # "emit"
OnlyOnCalls == \A i \in 1..Len(log) : log[i].did.op \in {"return", "on"}

C15_NotInSamePass ==
    op.name = "emit" =>
        \A i \in 1..Len(log) :
            AddsToOwnList(i) =>
                /\ \A j \in 1..Len(log) :
                      (log[j].depth = 1 /\ log[j].pass = log[i].pass) =>
                          log[j].id # NewIdOf(i)
                /\ (EmitOver /\ OnlyOnCalls) =>
                      \E n \in 1..Len(ListOf(all, log[i].did.type)) :
                          LET r == all[log[i].did.type][n]
                          IN  /\ r.id = NewIdOf(i)
                              /\ r.fn = log[i].did.fn
                              /\ r.ctx = log[i].did.ctx

C15_NextEmitInvokesListed ==
    (EmitOver /\ ~thrown) => InvokesAll(TypeCalls, ListOf(pre, op.type), <<op.evt>>)

C15_Bounded ==
    (op.name = "emit" /\ NoEmitCalls) =>
        /\ Len(TypeCalls) <= Len(ListOf(pre, op.type))
        /\ Len(WildCalls) <=
              Len(ListOf(pre, Wildcard))
              + Cardinality({i \in 1..Len(log) :
                                /\ IsOuterType(log[i])
                                /\ IsOn(i)
                                /\ log[i].did.type = Wildcard})

C15_AddedHandlerWaitsForNextEmit ==
    C15_NotInSamePass /\ C15_NextEmitInvokesListed /\ C15_Bounded

\* emit(foo) with one handler, which registers another under foo: one
\* invocation, two registrations left
C15_Witness ==
    /\ EmitOver
    /\ op.type # Wildcard
    /\ Len(ListOf(pre, op.type)) = 1
    /\ Len(log) = 1
    /\ AddsToOwnList(1)
    /\ Len(all[op.type]) = 2
    /\ all[op.type][2].id = NewIdOf(1)

\* the same in the wildcard pass of emit(foo)
C15_WitnessWildcard ==
    /\ EmitOver
    /\ op.type # Wildcard
    /\ Len(ListOf(pre, Wildcard)) = 1
    /\ Len(log) = 1
    /\ AddsToOwnList(1)
    /\ log[1].pass = "wild"
    /\ Len(all[Wildcard]) = 2

(***************************************************************************)
(* C16.  In emit(K, x), K other than '*', the copy of the '*' list is made *)
(* after the first pass: a registration made with on('*', c) by a handler  *)
(* of the first pass is invoked by the second pass of the same emit, with  *)
(* (K, x), when the emit returns and no later handler of the first pass    *)
(* calls off or emit; the registration of '*' that an off('*', c) of the   *)
(* first pass removes, and every registration '*' held when a handler of   *)
(* the first pass called off('*'), is not invoked by the second pass.      *)
(***************************************************************************)
\* invocation i of the first pass made call name for the key '*'
FirstPassDid(i, name) ==
    /\ IsOuterType(log[i])
    /\ log[i].did.op = name
    /\ log[i].did.type = Wildcard

\* the handlers of the first pass after invocation i return or call on
QuietAfter(i) ==
    \A j \in (i + 1)..Len(log) :
        IsOuterType(log[j]) => log[j].did.op \in {"return", "on"}

C16_AddedIsInvoked ==
    (EmitOver /\ ~thrown /\ op.type # Wildcard) =>
        \A i \in 1..Len(log) :
            (FirstPassDid(i, "on") /\ QuietAfter(i)) =>
                \E j \in (i + 1)..Len(log) :
                    /\ IsOuterWild(log[j])
                    /\ log[j].id = NewIdOf(i)
                    /\ log[j].fn = log[i].did.fn
                    /\ log[j].this = log[i].did.ctx
                    /\ log[j].args = <<op.type, op.evt>>

C16_RemovedIsNotInvoked ==
    (op.name = "emit" /\ op.type # Wildcard) =>
        \A i \in 1..Len(log) :
            FirstPassDid(i, "off") =>
                \A j \in 1..Len(log) :
                    IsOuterWild(log[j]) =>
                        IF log[i].did.fn = Undefined
                        THEN log[j].id >= NewIdOf(i)
                        ELSE LET list == ListOf(pre, Wildcard)
                                 h == log[i].did.fn
                                 c == log[i].did.ctx
                             IN  HasMatch(list, h, c) =>
                                     log[j].id # list[FirstMatch(list, h, c)].id

C16_WildcardCopyAfterFirstPass == C16_AddedIsInvoked /\ C16_RemovedIsNotInvoked

\* emit(foo) with one handler under foo and none under '*': the handler
\* registers a wildcard handler, which the same emit invokes
C16_Witness ==
    /\ EmitOver
    /\ ~thrown
    /\ op.type # Wildcard
    /\ ListOf(pre, Wildcard) = <<>>
    /\ Len(log) = 2
    /\ FirstPassDid(1, "on")
    /\ IsOuterWild(log[2])
    /\ log[2].id = NewIdOf(1)

\* a handler of foo calls off('*', c): the only wildcard handler is not invoked
C16_WitnessRemoved ==
    /\ EmitOver
    /\ ~thrown
    /\ op.type # Wildcard
    /\ Len(ListOf(pre, Wildcard)) = 1
    /\ Len(log) = 1
    /\ FirstPassDid(1, "off")
    /\ log[1].did.fn = pre[Wildcard][1].fn
    /\ all[Wildcard] = <<>>

\* a handler of foo calls off('*'): the wildcard handler is not invoked
C16_WitnessCleared ==
    /\ EmitOver
    /\ ~thrown
    /\ op.type # Wildcard
    /\ Len(ListOf(pre, Wildcard)) = 1
    /\ Len(log) = 1
    /\ FirstPassDid(1, "off")
    /\ log[1].did.fn = Undefined

(***************************************************************************)
(* C17.  Dispatch is depth-first.  An invocation made by an emit that a    *)
(* handler called comes after that handler's invocation and before any     *)
(* further invocation of the emit that invoked the handler: the            *)
(* invocations of the inner emit are one block.  When the first handler of *)
(* emit(K, x) calls emit(K2, y) and every other handler returns plainly,   *)
(* the block is the whole list of K2 with (y) followed by the whole '*'    *)
(* list with (K2, y), and it is complete before the outer emit makes its   *)
(* next invocation and before it returns (K2 other than '*').              *)
(***************************************************************************)
C17_InnerIsOneBlock ==
    \A k \in 1..Len(log) :
        log[k].depth > 1 =>
            \E p \in 1..(k - 1) :
                /\ log[p].depth = log[k].depth - 1
                /\ log[p].did.op = "emit"
                /\ \A q \in (p + 1)..(k - 1) : log[q].depth >= log[k].depth

IsInnerType(e) == e.depth = 2 /\ e.pass = "type"
IsInnerWild(e) == e.depth = 2 /\ e.pass = "wild"

\* the first handler called emit(K2, y), K2 other than '*', and the others
\* returned plainly
FirstCallsEmit ==
    /\ op.name = "emit"
    /\ Len(log) >= 1
    /\ log[1].did.op = "emit"
    /\ log[1].did.type # Wildcard
    /\ \A i \in 2..Len(log) : log[i].did = Plain

\* the outer emit has gone on after the inner one, or has returned
OuterWentOn ==
    \/ EmitOver /\ ~thrown
    \/ \E i \in 2..Len(log) : log[i].depth = 1

C17_InnerIsComplete ==
    (FirstCallsEmit /\ OuterWentOn) =>
        LET K2 == log[1].did.type
        IN  \E y \in InnerEvts :
                /\ InvokesAll(SelectSeq(log, IsInnerType), ListOf(pre, K2), <<y>>)
                /\ InvokesAll(SelectSeq(log, IsInnerWild), ListOf(pre, Wildcard),
                              <<K2, y>>)

C17_DepthFirst == C17_InnerIsOneBlock /\ C17_InnerIsComplete

\* A then B under foo: A calls emit(foo, y); A and B are invoked with y, then
\* the outer emit invokes B with x
C17_Witness ==
    /\ FirstCallsEmit
    /\ EmitOver
    /\ ~thrown
    /\ op.type # Wildcard
    /\ log[1].did.type = op.type
    /\ Len(ListOf(pre, op.type)) = 2
    /\ Len(log) = 4
    /\ log[2].depth = 2
    /\ log[3].depth = 2
    /\ log[3].args # <<op.evt>>
    /\ log[4].depth = 1
    /\ log[4].args = <<op.evt>>

\* a wildcard handler called by emit('*', x) calls emit(foo, y): the handler
\* of foo, then the wildcard handler with (foo, y)
C17_WitnessOtherKey ==
    /\ FirstCallsEmit
    /\ EmitOver
    /\ ~thrown
    /\ op.type = Wildcard
    /\ Len(ListOf(pre, log[1].did.type)) = 1
    /\ Len(ListOf(pre, Wildcard)) = 1
    /\ Len(SelectSeq(log, IsInnerType)) = 1
    /\ Len(SelectSeq(log, IsInnerWild)) = 1

(***************************************************************************)
(* C18.  A once registration is invoked at most once, also when handlers   *)
(* of emit(K), K other than '*', call emit(K) while it is dispatching: no  *)
(* two invocations made during one emit of the owner are of the same once  *)
(* registration.  The code removes the registration after its callback has *)
(* returned, and every emit walks its own copy.                            *)
(***************************************************************************)
\* the emits that handlers called were emits of the key being dispatched
InnerEmitsSameKey ==
    \A i \in 1..Len(log) : log[i].did.op = "emit" => log[i].did.type = op.type

C18_OnceAtMostOnceUnderReentrancy ==
    (op.name = "emit" /\ op.type # Wildcard /\ InnerEmitsSameKey) =>
        \A i, j \in 1..Len(log) :
            (i < j /\ log[i].once) => log[i].id # log[j].id

(***************************************************************************)
(* C19.  When the callback of a once registration throws in emit, after    *)
(* handlers that returned plainly, the registration is still in the live   *)
(* list once the exception has reached the caller.  The next emit of its   *)
(* key finds it in the list, at its place, and invokes it again; if this   *)
(* time the callback returns plainly, and no other registration of the     *)
(* list has its callback and context, the registration is in no list when  *)
(* the emit has returned.                                                  *)
(***************************************************************************)
Last == log[Len(log)]

\* a once callback has just thrown, after handlers that returned plainly
OnceThrew == HasThrow /\ PlainBefore /\ Last.once

C19_StillRegistered ==
    OnceThrew =>
        Last.id \in Ids(ListOf(all, IF Last.pass = "type" THEN op.type ELSE Wildcard))

C19_InvokedAgain ==
    (op.name = "emit" /\ op.threw # 0) =>
        \E n \in 1..Len(ListOf(pre, op.type)) :
            LET r == pre[op.type][n]
            IN  /\ r.id = op.threw
                /\ r.once
                /\ Len(TypeCalls) >= n => Invokes(TypeCalls[n], r, <<op.evt>>)
                /\ (EmitOver /\ ~thrown) => Len(TypeCalls) >= n
                /\ (EmitOver /\ ~thrown /\ PureLog /\ Unique(r, pre[op.type])) =>
                      Gone(r.id)

C19_ThrowingOnceStaysRegistered == C19_StillRegistered /\ C19_InvokedAgain

\* the once handler of foo threw in the first emit(foo); the second emit(foo)
\* has invoked it again, it returned, and it is gone
C19_Witness ==
    /\ EmitOver
    /\ ~thrown
    /\ PureLog
    /\ op.type # Wildcard
    /\ op.threw # 0
    /\ Len(log) = 1
    /\ log[1].id = op.threw
    /\ all[op.type] = <<>>

\* the state after the throw: the once registration is listed
C19_WitnessThrown ==
    /\ OnceThrew
    /\ op.type # Wildcard
    /\ Len(log) = 2
    /\ Last.pass = "type"
    /\ Len(all[op.type]) = 2

====
